---- MODULE Spec2Model ----
(***************************************************************************)
(* aws-ping-webui: the /ping handler (streamHandler) of main.go.           *)
(*                                                                         *)
(* One request: the handler measures the client's ping, checks that the    *)
(* ResponseWriter can flush, launches one goroutine per region (three      *)
(* sequential pingRegion attempts each, minimum kept), a closer goroutine  *)
(* (wg.Wait, close), and ranges over the results channel writing one       *)
(* server-sent event per result.                                           *)
(*                                                                         *)
(* Strings whose content the code inspects (the client address) are        *)
(* tuples of one-character strings; time.Duration is an integer number of  *)
(* nanoseconds; a float64 holding a whole number of milliseconds is that   *)
(* integer.                                                                *)
(***************************************************************************)
EXTENDS Integers, Sequences, FiniteSets, TLC

VARIABLES
    xff,          \* request header X-Forwarded-For ("" when absent)
    remoteAddr,   \* r.RemoteAddr
    flusherOk,    \* whether w implements http.Flusher
    regions,      \* what awsping.GetRegions() returns
    connected,    \* whether the client still holds the connection
    hpc,          \* position of streamHandler
    ip,           \* streamHandler: ip
    clientPing,   \* streamHandler: clientPing
    pingCalls,    \* number of pingClient invocations of this request
    httpError,    \* body passed to http.Error ("" when not called)
    launched,     \* streamHandler: number of go statements of the launch loop executed
    wg,           \* sync.WaitGroup counter
    results,      \* buffered channel: queued PingResults
    capacity,     \* cap(results)
    closed,       \* number of close(results) executed
    panicked,     \* a goroutine sent on the closed channel
    cur,          \* streamHandler: result received by range
    received,     \* every result range has received, in order
    writes,       \* every Fprintf to w: <<data, ok>> in order
    flushes,      \* number of flusher.Flush() calls
    ppc,          \* per region goroutine: position
    att,          \* per region goroutine: loop counter i
    minLatency,   \* per region goroutine: minLatency
    lastError,    \* per region goroutine: lastError
    result,       \* per region goroutine: result
    hist,         \* per region goroutine: what pingRegion returned, in order
    pauses,       \* per region goroutine: number of time.Sleep calls returned
    cpc,          \* position of the closer goroutine
    sentOrder     \* codes in the order of the sends on results

vars == <<xff, remoteAddr, flusherOk, regions, connected, hpc, ip, clientPing,
          pingCalls, httpError, launched, wg, results, capacity, closed, panicked,
          cur, received, writes, flushes, ppc, att, minLatency, lastError, result,
          hist, pauses, cpc, sentOrder>>

reqVars == <<xff, remoteAddr, flusherOk, regions>>
proberVars == <<ppc, att, minLatency, lastError, result, hist, pauses>>

----------------------------------------------------------------------------
\* Bounds and input sets

\* Largest number of regions a request is run with.
MaxTargets == 2

AllRegions ==
    << [Name |-> "US East", Code |-> "us-east-1"],
       [Name |-> "EU West", Code |-> "eu-west-1"],
       [Name |-> "Asia Pacific", Code |-> "ap-south-1"],
       [Name |-> "South America", Code |-> "sa-east-1"] >>

\* The loop bound of the retry loop.
Attempts == 3

\* Nanoseconds per millisecond (time.Duration.Milliseconds).
NsPerMs == 1000000

Nil == "<nil>"

\* What one pingRegion call may return: a duration (ns) and nil, or 0 and an error.
Ok(d) == [d |-> d, err |-> Nil]
Fail(e) == [d |-> 0, err |-> e]

AllOutcomes ==
    {Ok(d) : d \in {0, 500000, 30000000, 40700000}}
        \cup {Fail(e) : e \in {"err1", "err2", "err3"}}

FewOutcomes == {Ok(30000000), Fail("err1")}

\* With one region every outcome is drawn; with more, one success and one failure.
ProbeOutcomes == IF Len(regions) <= 1 THEN AllOutcomes ELSE FewOutcomes

\* Client addresses.
Addr4 == <<"1", ".", "2", ".", "3", ".", "4">>
RemoteAddr4 == Addr4 \o <<":", "8", "0">>
RemoteAddr6 == <<"[", ":", ":", "1", "]", ":", "8", "0">>
RemoteAddrs == {RemoteAddr4, RemoteAddr6, <<>>}
XffValues == {<<>>, <<"9", ".", "9", ".", "9", ".", "9">>, <<"b", "a", "d">>}

\* What the ICMP exchange of pingClient may do: the step that fails, or a round trip.
ClientOutcomes ==
    {[fail |-> f, rtt |-> 0] : f \in {"listen", "marshal", "send", "deadline", "read", "parse"}}
        \cup {[fail |-> "none", rtt |-> d] : d \in {400000, 12345678}}

----------------------------------------------------------------------------
\* Pure helpers

Range(s) == {s[i] : i \in DOMAIN s}

Max(S) == CHOOSE x \in S : \A y \in S : y <= x
Min(S) == CHOOSE x \in S : \A y \in S : x <= y

\* strings.LastIndex(s, c), 1-based; 0 when c does not occur (Go: -1).
LastIndex(s, c) ==
    IF \E i \in DOMAIN s : s[i] = c
    THEN Max({i \in DOMAIN s : s[i] = c})
    ELSE 0

\* strings.Index(s, c), 1-based; 0 when c does not occur.
Index(s, c) ==
    IF \E i \in DOMAIN s : s[i] = c
    THEN Min({i \in DOMAIN s : s[i] = c})
    ELSE 0

Digits == {"0", "1", "2", "3", "4", "5", "6", "7", "8", "9"}
HexDigits == Digits \cup {"a", "b", "c", "d", "e", "f"}

DigitVal(c) ==
    CASE c = "0" -> 0 [] c = "1" -> 1 [] c = "2" -> 2 [] c = "3" -> 3
      [] c = "4" -> 4 [] c = "5" -> 5 [] c = "6" -> 6 [] c = "7" -> 7
      [] c = "8" -> 8 [] c = "9" -> 9

RECURSIVE SplitOn(_, _)
SplitOn(s, c) ==
    IF Index(s, c) = 0
    THEN <<s>>
    ELSE <<SubSeq(s, 1, Index(s, c) - 1)>>
             \o SplitOn(SubSeq(s, Index(s, c) + 1, Len(s)), c)

RECURSIVE DecimalVal(_)
DecimalVal(f) ==
    IF f = <<>> THEN 0
    ELSE 10 * DecimalVal(SubSeq(f, 1, Len(f) - 1)) + DigitVal(f[Len(f)])

\* One field of a dotted quad: 1 to 3 digits, no leading zero, at most 255.
OctetOk(f) ==
    /\ Len(f) \in 1..3
    /\ \A i \in DOMAIN f : f[i] \in Digits
    /\ (Len(f) > 1 => f[1] # "0")
    /\ DecimalVal(f) <= 255

IsIPv4Text(s) ==
    LET fs == SplitOn(s, ".")
    IN  Len(fs) = 4 /\ \A i \in DOMAIN fs : OctetOk(fs[i])

\* The IPv6 text form, approximated: hex digits and at least two colons, nothing else.
IsIPv6Text(s) ==
    /\ \A i \in DOMAIN s : s[i] \in HexDigits \cup {":"}
    /\ Cardinality({i \in DOMAIN s : s[i] = ":"}) >= 2

\* net.ParseIP(s) # nil: the first '.' or ':' decides the family.
ParseIPOk(s) ==
    LET seps == {i \in DOMAIN s : s[i] \in {".", ":"}}
    IN  IF seps = {} THEN FALSE
        ELSE IF s[Min(seps)] = "." THEN IsIPv4Text(s)
        ELSE IsIPv6Text(s)

\* time.Duration.Milliseconds() as a float64.
Milliseconds(d) == d \div NsPerMs

\* The address streamHandler pings: the header, else RemoteAddr up to its last colon.
ClientIP(header, remote) ==
    IF header # <<>> THEN header
    ELSE IF LastIndex(remote, ":") # 0
         THEN SubSeq(remote, 1, LastIndex(remote, ":") - 1)
         ELSE remote

\* A pingClient that reports its failures as -1.
pingClientSentinel(ipStr, o) ==
    IF ~ParseIPOk(ipStr) THEN -1
    ELSE IF o.fail # "none" THEN -1
    ELSE Milliseconds(o.rtt)

\* pingClient(ipStr) when the ICMP exchange behaves as o.
pingClient(ipStr, o) ==
    IF ~ParseIPOk(ipStr) THEN 0
    ELSE IF o.fail # "none" THEN 0
    ELSE Milliseconds(o.rtt)

\* A retry loop that keeps the first error instead of the last.
KeepFirstError(lastErr, err) == IF lastErr = Nil THEN err ELSE lastErr

\* lastError = err after a failed attempt.
NewLastError(lastErr, err) == err

\* The update of minLatency after a successful attempt.
NewMinLatency(min, latency) ==
    IF min = 0 \/ latency < min THEN latency ELSE min

\* The Error field of the result: set when minLatency == 0 && lastError != nil.
ResultError(min, lastErr) ==
    IF min = 0 /\ lastErr # Nil THEN lastErr ELSE ""

\* A result built without its ClientPing field.
BuildResultNoClientPing(region, min, lastErr, cp) ==
    [Region |-> region.Name, Code |-> region.Code, Latency |-> Milliseconds(min),
     ClientPing |-> 0, Error |-> ResultError(min, lastErr)]

\* The PingResult a region goroutine builds.
BuildResult(region, min, lastErr, cp) ==
    [Region |-> region.Name, Code |-> region.Code, Latency |-> Milliseconds(min),
     ClientPing |-> cp, Error |-> ResultError(min, lastErr)]

ZeroResult == [Region |-> "", Code |-> "", Latency |-> 0, ClientPing |-> 0, Error |-> ""]

\* The float64 values that are not numbers of milliseconds: +Inf stands above and
\* NaN below every integer the model computes with.
PosInf == 2147483647
NaN == -2147483647

IsFinite(x) == x \notin {PosInf, NaN}

\* json.Marshal fails on a float64 that is not finite.
MarshalOk(res) == IsFinite(res.Latency) /\ IsFinite(res.ClientPing)

\* json.Marshal(result): the error key is omitted when Error is empty.
Marshal(res) ==
    IF res.Error = ""
    THEN [region |-> res.Region, code |-> res.Code, latency |-> res.Latency,
          clientPing |-> res.ClientPing]
    ELSE [region |-> res.Region, code |-> res.Code, latency |-> res.Latency,
          clientPing |-> res.ClientPing, error |-> res.Error]

\* make(chan PingResult): a channel without a buffer.
ChanCapUnbuffered(regs) == 0

\* make(chan PingResult, len(regions))
ChanCap(regs) == Len(regs)

\* A queue that hands out the newest result first.
EnqueueFront(q, res) == <<res>> \o q

\* results <- result on an open channel
Enqueue(q, res) == Append(q, res)

\* A retry loop written with i <= 3.
LoopDoneOffByOne(i) == ~(i <= Attempts)

\* The first attempt count at which the retry loop stops.
LoopDone(i) == ~(i < Attempts)

----------------------------------------------------------------------------
\* The codes of a region list, in order.
Codes(regs) == [i \in DOMAIN regs |-> regs[i].Code]

\* The state when streamHandler is entered

Targets == 1..Len(regions)

Init ==
    /\ \E n \in 0..MaxTargets : regions = SubSeq(AllRegions, 1, n)
    /\ flusherOk \in BOOLEAN
    /\ IF Len(regions) <= 1
       THEN xff \in XffValues /\ remoteAddr \in RemoteAddrs
       ELSE xff = <<>> /\ remoteAddr = RemoteAddr4
    /\ connected = TRUE
    /\ hpc = "start"
    /\ ip = <<>>
    /\ clientPing = 0
    /\ pingCalls = 0
    /\ httpError = ""
    /\ launched = 0
    /\ wg = 0
    /\ results = <<>>
    /\ capacity = 0
    /\ closed = 0
    /\ panicked = FALSE
    /\ cur = ZeroResult
    /\ received = <<>>
    /\ writes = <<>>
    /\ flushes = 0
    /\ ppc = [r \in Targets |-> "idle"]
    /\ att = [r \in Targets |-> 0]
    /\ minLatency = [r \in Targets |-> 0]
    /\ lastError = [r \in Targets |-> Nil]
    /\ result = [r \in Targets |-> ZeroResult]
    /\ hist = [r \in Targets |-> <<>>]
    /\ pauses = [r \in Targets |-> 0]
    /\ cpc = "idle"
    /\ sentOrder = <<>>

----------------------------------------------------------------------------
\* streamHandler

\* Lines 119-128: the client address is taken and pinged once.
HandlerPingClient ==
    /\ hpc = "start"
    /\ ip' = ClientIP(xff, remoteAddr)
    /\ \E o \in ClientOutcomes : clientPing' = pingClient(ip', o)
    /\ pingCalls' = pingCalls + 1
    /\ hpc' = "check"
    /\ UNCHANGED <<reqVars, connected, httpError, launched, wg, results, capacity,
                   closed, panicked, cur, received, writes, flushes, proberVars, cpc, sentOrder>>

\* Lines 135-146: without a Flusher the request ends with http.Error; with one the
\* channel is made and the WaitGroup set to the number of regions.
HandlerCheckFlusher ==
    /\ hpc = "check"
    /\ IF ~flusherOk
       THEN /\ httpError' = "Streaming unsupported!"
            /\ hpc' = "done"
            /\ UNCHANGED <<capacity, wg>>
       ELSE /\ capacity' = ChanCap(regions)
            /\ wg' = Len(regions)
            /\ hpc' = "launch"
            /\ UNCHANGED httpError
    /\ UNCHANGED <<reqVars, connected, ip, clientPing, pingCalls, launched, results,
                   closed, panicked, cur, received, writes, flushes, proberVars, cpc, sentOrder>>

\* Lines 148-149, 185: one go statement of the launch loop.
HandlerLaunch ==
    /\ hpc = "launch"
    /\ launched < Len(regions)
    /\ launched' = launched + 1
    /\ ppc' = [ppc EXCEPT ![launched + 1] = "ready"]
    /\ UNCHANGED <<reqVars, connected, hpc, ip, clientPing, pingCalls, httpError, wg,
                   results, capacity, closed, panicked, cur, received, writes, flushes, att,
                   minLatency, lastError, result, hist, pauses, cpc, sentOrder>>

\* Line 187: the closer goroutine is started once the launch loop is over.
HandlerLaunchCloser ==
    /\ hpc = "launch"
    /\ launched = Len(regions)
    /\ cpc' = "wait"
    /\ hpc' = "range"
    /\ UNCHANGED <<reqVars, connected, ip, clientPing, pingCalls, httpError, launched,
                   wg, results, capacity, closed, panicked, cur, received, writes, flushes,
                   proberVars, sentOrder>>

\* Line 193: range receives the head of the channel.
HandlerReceive ==
    /\ hpc = "range"
    /\ results # <<>>
    /\ cur' = Head(results)
    /\ received' = Append(received, Head(results))
    /\ results' = Tail(results)
    /\ hpc' = "write"
    /\ UNCHANGED <<reqVars, connected, ip, clientPing, pingCalls, httpError, launched,
                   wg, capacity, closed, panicked, writes, flushes, proberVars, cpc,
                   sentOrder>>

\* A loop that gives up waiting for the channel after some time.
HandlerRangeEndTimeout ==
    /\ hpc = "range"
    /\ hpc' = "done"
    /\ UNCHANGED <<reqVars, connected, ip, clientPing, pingCalls, httpError, launched,
                   wg, results, capacity, closed, panicked, cur, received, writes,
                   flushes, proberVars, cpc, sentOrder>>

\* A loop that ends as soon as the channel is empty, closed or not.
HandlerRangeEndEarly ==
    /\ hpc = "range"
    /\ results = <<>>
    /\ hpc' = "done"
    /\ UNCHANGED <<reqVars, connected, ip, clientPing, pingCalls, httpError, launched,
                   wg, results, capacity, closed, panicked, cur, received, writes, flushes,
                   proberVars, cpc, sentOrder>>

\* Lines 193, 204: range ends when the channel is closed and empty.
HandlerRangeEnd ==
    /\ hpc = "range"
    /\ results = <<>>
    /\ closed > 0
    /\ hpc' = "done"
    /\ UNCHANGED <<reqVars, connected, ip, clientPing, pingCalls, httpError, launched,
                   wg, results, capacity, closed, panicked, cur, received, writes, flushes,
                   proberVars, cpc, sentOrder>>

\* A loop that returns at the first marshal error.
HandlerWriteStopsOnError ==
    /\ hpc = "write"
    /\ IF MarshalOk(cur)
       THEN /\ writes' = Append(writes, [data |-> Marshal(cur), ok |-> connected])
            /\ hpc' = "flush"
       ELSE /\ hpc' = "done"
            /\ UNCHANGED writes
    /\ UNCHANGED <<reqVars, connected, ip, clientPing, pingCalls, httpError, launched,
                   wg, results, capacity, closed, panicked, cur, received, flushes,
                   proberVars, cpc, sentOrder>>

\* Lines 194-199: the result is marshalled and written; a marshal error skips it.
\* The error of Fprintf is not looked at.
HandlerWrite ==
    /\ hpc = "write"
    /\ IF MarshalOk(cur)
       THEN /\ writes' = Append(writes, [data |-> Marshal(cur), ok |-> connected])
            /\ hpc' = "flush"
       ELSE /\ hpc' = "range"
            /\ UNCHANGED writes
    /\ UNCHANGED <<reqVars, connected, ip, clientPing, pingCalls, httpError, launched,
                   wg, results, capacity, closed, panicked, cur, received, flushes, proberVars,
                   cpc, sentOrder>>

\* A loop that leaves the flushing to the end of the request.
HandlerFlushSkipped ==
    /\ hpc = "flush"
    /\ hpc' = "range"
    /\ UNCHANGED <<reqVars, connected, ip, clientPing, pingCalls, httpError, launched,
                   wg, results, capacity, closed, panicked, cur, received, writes,
                   flushes, proberVars, cpc, sentOrder>>

\* Lines 200-202: the flush after the write.
HandlerFlush ==
    /\ hpc = "flush"
    /\ flushes' = flushes + 1
    /\ hpc' = "range"
    /\ UNCHANGED <<reqVars, connected, ip, clientPing, pingCalls, httpError, launched,
                   wg, results, capacity, closed, panicked, cur, received, writes, proberVars,
                   cpc, sentOrder>>

----------------------------------------------------------------------------
\* The goroutine of one region (lines 149-184)

\* Lines 150-158: the goroutine starts running and calls pingRegion for attempt 0.
ProberBegin(r) ==
    /\ ppc[r] = "ready"
    /\ att' = [att EXCEPT ![r] = 0]
    /\ minLatency' = [minLatency EXCEPT ![r] = 0]
    /\ lastError' = [lastError EXCEPT ![r] = Nil]
    /\ ppc' = [ppc EXCEPT ![r] = "probing"]
    /\ UNCHANGED <<reqVars, connected, hpc, ip, clientPing, pingCalls, httpError,
                   launched, wg, results, capacity, closed, panicked, cur, received, writes,
                   flushes, result, hist, pauses, cpc, sentOrder>>

\* Lines 157, 169-181: i++ and the loop test; when the loop is over the result is
\* built from minLatency, lastError and the handler's clientPing.
ProberNext(r, min, lastErr) ==
    /\ att' = [att EXCEPT ![r] = att[r] + 1]
    /\ IF LoopDone(att[r] + 1)
       THEN /\ result' = [result EXCEPT
                            ![r] = BuildResult(regions[r], min, lastErr, clientPing)]
            /\ ppc' = [ppc EXCEPT ![r] = "send"]
       ELSE /\ ppc' = [ppc EXCEPT ![r] = "probing"]
            /\ UNCHANGED result

\* Lines 158-165: pingRegion returns. An error is kept in lastError and the loop
\* continues without the pause; a duration updates minLatency and the pause starts.
ProbeReturn(r) ==
    /\ ppc[r] = "probing"
    /\ \E o \in ProbeOutcomes :
        /\ hist' = [hist EXCEPT ![r] = Append(hist[r], o)]
        /\ IF o.err # Nil
           THEN /\ lastError' = [lastError EXCEPT
                                   ![r] = NewLastError(lastError[r], o.err)]
                /\ UNCHANGED minLatency
                /\ ProberNext(r, minLatency[r], NewLastError(lastError[r], o.err))
           ELSE /\ minLatency' = [minLatency EXCEPT
                                    ![r] = NewMinLatency(minLatency[r], o.d)]
                /\ ppc' = [ppc EXCEPT ![r] = "sleep"]
                /\ UNCHANGED <<lastError, att, result>>
    /\ UNCHANGED <<reqVars, connected, hpc, ip, clientPing, pingCalls, httpError,
                   launched, wg, results, capacity, closed, panicked, cur, received,
                   writes, flushes, pauses, cpc, sentOrder>>

\* Line 166: the pause after a successful attempt ends.
ProberWake(r) ==
    /\ ppc[r] = "sleep"
    /\ pauses' = [pauses EXCEPT ![r] = pauses[r] + 1]
    /\ ProberNext(r, minLatency[r], lastError[r])
    /\ UNCHANGED <<reqVars, connected, hpc, ip, clientPing, pingCalls, httpError,
                   launched, wg, results, capacity, closed, panicked, cur, received,
                   writes, flushes, minLatency, lastError, hist, cpc, sentOrder>>

\* The locals of a goroutine that has no further use of them.
DropLocals(r) ==
    /\ att' = [att EXCEPT ![r] = 0]
    /\ minLatency' = [minLatency EXCEPT ![r] = 0]
    /\ lastError' = [lastError EXCEPT ![r] = Nil]
    /\ result' = [result EXCEPT ![r] = ZeroResult]
    /\ hist' = [hist EXCEPT ![r] = <<>>]
    /\ pauses' = [pauses EXCEPT ![r] = 0]

\* A goroutine that returns without sending when every attempt failed.
ProberSendSkipsFailed(r) ==
    /\ ppc[r] = "send"
    /\ IF result[r].Error # ""
       THEN /\ ppc' = [ppc EXCEPT ![r] = "exit"]
            /\ UNCHANGED <<results, sentOrder>>
       ELSE /\ Len(results) < capacity
            /\ results' = Enqueue(results, result[r])
            /\ sentOrder' = Append(sentOrder, result[r].Code)
            /\ ppc' = [ppc EXCEPT ![r] = "exit"]
    /\ DropLocals(r)
    /\ UNCHANGED <<reqVars, connected, hpc, ip, clientPing, pingCalls, httpError,
                   launched, wg, capacity, closed, panicked, cur, received, writes, flushes, cpc>>

\* Line 183: the send. It waits while the buffer is full; on a closed channel it
\* panics. Nothing reads the goroutine's locals after the send: they are dropped here.
ProberSend(r) ==
    /\ ppc[r] = "send"
    /\ IF closed > 0
       THEN /\ panicked' = TRUE
            /\ ppc' = [ppc EXCEPT ![r] = "done"]
            /\ UNCHANGED <<results, sentOrder>>
       ELSE /\ Len(results) < capacity
            /\ results' = Enqueue(results, result[r])
            /\ sentOrder' = Append(sentOrder, result[r].Code)
            /\ ppc' = [ppc EXCEPT ![r] = "exit"]
            /\ UNCHANGED panicked
    /\ DropLocals(r)
    /\ UNCHANGED <<reqVars, connected, hpc, ip, clientPing, pingCalls, httpError,
                   launched, wg, capacity, closed, cur, received, writes, flushes, cpc>>

\* A goroutine that returns without wg.Done().
ProberDoneNoWgDone(r) ==
    /\ ppc[r] = "exit"
    /\ ppc' = [ppc EXCEPT ![r] = "done"]
    /\ UNCHANGED <<reqVars, connected, hpc, ip, clientPing, pingCalls, httpError,
                   launched, wg, results, capacity, closed, panicked, cur, received,
                   writes, flushes, att, minLatency, lastError, result, hist, pauses,
                   cpc, sentOrder>>

\* Line 150: the deferred wg.Done(); the goroutine is gone.
ProberDone(r) ==
    /\ ppc[r] = "exit"
    /\ wg' = wg - 1
    /\ ppc' = [ppc EXCEPT ![r] = "done"]
    /\ UNCHANGED <<reqVars, connected, hpc, ip, clientPing, pingCalls, httpError,
                   launched, results, capacity, closed, panicked, cur, received, writes,
                   flushes, att, minLatency, lastError, result, hist, pauses, cpc, sentOrder>>

----------------------------------------------------------------------------
\* The closer goroutine (lines 187-191)

\* A closer that does not wait for the goroutines.
CloserCloseNoWait ==
    /\ cpc = "wait"
    /\ closed' = closed + 1
    /\ cpc' = "done"
    /\ UNCHANGED <<reqVars, connected, hpc, ip, clientPing, pingCalls, httpError,
                   launched, wg, results, capacity, panicked, cur, received, writes,
                   flushes, proberVars, sentOrder>>

\* Lines 188-190: wg.Wait() returns when the counter is 0; the channel is closed.
CloserClose ==
    /\ cpc = "wait"
    /\ wg = 0
    /\ closed' = closed + 1
    /\ cpc' = "done"
    /\ UNCHANGED <<reqVars, connected, hpc, ip, clientPing, pingCalls, httpError,
                   launched, wg, results, capacity, panicked, cur, received, writes, flushes,
                   proberVars, sentOrder>>

----------------------------------------------------------------------------
\* The client

\* The client goes away while the request is being served. Only a write observes
\* it, so the step is taken when the handler is about to write.
Disconnect ==
    /\ connected
    /\ hpc = "write"
    /\ connected' = FALSE
    /\ UNCHANGED <<reqVars, hpc, ip, clientPing, pingCalls, httpError, launched, wg,
                   results, capacity, closed, panicked, cur, received, writes, flushes,
                   proberVars, cpc, sentOrder>>

----------------------------------------------------------------------------
\* Specifications

Handler ==
    \/ HandlerPingClient
    \/ HandlerCheckFlusher
    \/ HandlerLaunch
    \/ HandlerLaunchCloser
    \/ HandlerReceive
    \/ HandlerRangeEnd
    \/ HandlerWrite
    \/ HandlerFlush

Prober(r) ==
    \/ ProberBegin(r)
    \/ ProbeReturn(r)
    \/ ProberWake(r)
    \/ ProberSend(r)
    \/ ProberDone(r)

\* Every step of the program (the client's steps excluded).
Program == Handler \/ CloserClose \/ \E r \in Targets : Prober(r)

Next == Program \/ Disconnect

Spec == Init /\ [][Next]_vars

\* Goroutines that can run do run; pingRegion and pingClient return within their
\* timeouts; a write or flush to the client returns.
FairSpec == Spec /\ WF_vars(Program)

\* The range loop alone, on a closed channel that holds one PingResult per region
\* with any float64 in Latency, the values json.Marshal rejects included. (The
\* results the goroutines build hold whole numbers of milliseconds, which
\* json.Marshal always accepts.)
AnyLatency == {0, 30, NaN, PosInf}

MarshalInit ==
    /\ \E n \in 0..MaxTargets : regions = SubSeq(AllRegions, 1, n)
    /\ flusherOk = TRUE
    /\ xff = <<>>
    /\ remoteAddr = RemoteAddr4
    /\ connected = TRUE
    /\ hpc = "range"
    /\ ip = Addr4
    /\ clientPing = 12
    /\ pingCalls = 1
    /\ httpError = ""
    /\ launched = Len(regions)
    /\ wg = 0
    /\ results \in [Targets -> [Region : {regions[r].Name : r \in Targets},
                                Code : {regions[r].Code : r \in Targets},
                                Latency : AnyLatency,
                                ClientPing : {12}, Error : {"", "err1"}]]
    /\ \A r \in Targets : /\ results[r].Region = regions[r].Name
                          /\ results[r].Code = regions[r].Code
    /\ capacity = ChanCap(regions)
    /\ closed = 1
    /\ panicked = FALSE
    /\ cur = ZeroResult
    /\ received = <<>>
    /\ writes = <<>>
    /\ flushes = 0
    /\ ppc = [r \in Targets |-> "done"]
    /\ att = [r \in Targets |-> 0]
    /\ minLatency = [r \in Targets |-> 0]
    /\ lastError = [r \in Targets |-> Nil]
    /\ result = [r \in Targets |-> ZeroResult]
    /\ hist = [r \in Targets |-> <<>>]
    /\ pauses = [r \in Targets |-> 0]
    /\ cpc = "done"
    /\ sentOrder = Codes(regions)

MarshalNext ==
    \/ HandlerReceive
    \/ HandlerWrite
    \/ HandlerFlush
    \/ HandlerRangeEnd
    \/ Disconnect

MarshalSpec == MarshalInit /\ [][MarshalNext]_vars

TypeOK ==
    /\ hpc \in {"start", "check", "launch", "range", "write", "flush", "done"}
    /\ cpc \in {"idle", "wait", "done"}
    /\ \A r \in Targets :
         ppc[r] \in {"idle", "ready", "probing", "sleep", "send", "exit", "done"}
    /\ wg \in 0..Len(regions)
    /\ launched \in 0..Len(regions)

----------------------------------------------------------------------------
\* Vocabulary of the properties

\* The codes of the events written so far, in order.
WrittenCodes == [i \in DOMAIN writes |-> writes[i].data.code]

\* The codes of the results queued in the channel, in order.
QueuedCodes == [i \in DOMAIN results |-> results[i].Code]

\* The codes the handler has received from the channel, in order.
ReceivedCodes == IF hpc = "write" THEN Append(WrittenCodes, cur.Code) ELSE WrittenCodes

Count(s, x) == Cardinality({i \in DOMAIN s : s[i] = x})

IsPrefix(s, t) == Len(s) <= Len(t) /\ SubSeq(t, 1, Len(s)) = s

\* The goroutine of region r holds the result it is about to send.
Built(r) == ppc[r] = "send"

Successes(h) == {i \in DOMAIN h : h[i].err = Nil}
Failures(h) == {i \in DOMAIN h : h[i].err # Nil}

MinSuccess(h) == Min({h[i].d : i \in Successes(h)})

\* Exactly one event per region has been written.
EmittedAll ==
    /\ Len(writes) = Len(regions)
    /\ \A r \in Targets : Count(WrittenCodes, regions[r].Code) = 1
    /\ Range(WrittenCodes) = Range(Codes(regions))

----------------------------------------------------------------------------
\* C1: a request that reaches the fan-out eventually returns, having written exactly
\* one event per region whatever the attempts returned (N = 0 included); the codes
\* written are the region codes, each once.
C1_EmitsAllThenTerminates ==
    <>[](hpc = "done" /\ (flusherOk => EmittedAll))

C1_Witness ==
    /\ hpc = "done"
    /\ Len(regions) = 2
    /\ EmittedAll
    /\ "error" \in DOMAIN writes[1].data
    /\ "error" \notin DOMAIN writes[2].data

\* C2: every region has had at most one result sent on the channel; none before its
\* goroutine has sent, exactly one once it has, however many attempts failed.
C2_OneMeasurementPerTarget ==
    \A r \in Targets :
        /\ Count(sentOrder, regions[r].Code) <= 1
        /\ ppc[r] \in {"exit", "done"} => Count(sentOrder, regions[r].Code) = 1

C2_Witness ==
    /\ Len(regions) = 2
    /\ ppc[1] = "done"
    /\ ppc[2] = "send"
    /\ Cardinality(Failures(hist[2])) = 2
    /\ Len(results) = 1
    /\ results[1].Error # ""
    /\ sentOrder = <<regions[1].Code>>

\* C3 (as claimed): when some attempt succeeded, the built result carries the minimum
\* of the successful durations, a duration of 0 included.
C3_MinOfSuccesses ==
    \A r \in Targets :
        (Built(r) /\ Successes(hist[r]) # {}) =>
            /\ minLatency[r] = MinSuccess(hist[r])
            /\ result[r].Latency = Milliseconds(MinSuccess(hist[r]))

\* C4 (as claimed): the built result carries an error exactly when all three
\* attempts failed.
C4_ErrorIffAllFailed ==
    \A r \in Targets :
        Built(r) => ((result[r].Error # "") <=> (Successes(hist[r]) = {}))

\* C5: when all three attempts failed, the result has latency 0 and the error of the
\* third attempt.
C5_LastErrorWins ==
    \A r \in Targets :
        (Built(r) /\ Successes(hist[r]) = {}) =>
            /\ Len(hist[r]) = Attempts
            /\ result[r].Latency = 0
            /\ result[r].Error = hist[r][Attempts].err

C5_Witness ==
    \E r \in Targets :
        /\ ppc[r] = "send"
        /\ hist[r] = <<Fail("err1"), Fail("err2"), Fail("err3")>>
        /\ result[r].Latency = 0
        /\ result[r].Error = "err3"

\* C6: a goroutine at its send always finds room in the channel; the channel never
\* holds more than N results; every result sent is queued until it is received.
C6_SendNeverBlocks ==
    /\ \A r \in Targets : ppc[r] = "send" => Len(results) < capacity
    /\ Len(results) <= Len(regions)
    /\ sentOrder = ReceivedCodes \o QueuedCodes

C6_Witness ==
    /\ Len(regions) = 2
    /\ Len(results) = 2
    /\ hpc = "launch"
    /\ writes = <<>>

\* C7 (as claimed): after a write that failed there is no further write.
C7_StopsAfterFailedWrite ==
    \A i \in DOMAIN writes : i < Len(writes) => writes[i].ok

\* C8 (as claimed): a request that ended with the capability error has pinged neither
\* the client nor a region and has started no goroutine.
C8_NoProbeWithoutFlusher ==
    httpError # "" =>
        /\ pingCalls = 0
        /\ \A r \in Targets : ppc[r] = "idle" /\ hist[r] = <<>>

\* C9: the client is pinged once, before any goroutine is launched, and every event
\* of the request carries the value captured then.
C9_ClientPingOnce ==
    /\ pingCalls <= 1
    /\ hpc # "start" => pingCalls = 1
    /\ (\E r \in Targets : ppc[r] # "idle") => pingCalls = 1
    /\ \A r \in Targets : Built(r) => result[r].ClientPing = clientPing
    /\ \A i \in DOMAIN writes : writes[i].data.clientPing = clientPing

C9_Witness ==
    /\ hpc = "done"
    /\ Len(regions) = 2
    /\ Len(writes) = 2
    /\ clientPing = 12
    /\ writes[1].data.clientPing = 12
    /\ writes[2].data.clientPing = 12

\* C10: the events are written in the order of the sends on the channel, whatever
\* the order of the region list.
C10_ArrivalOrder ==
    /\ IsPrefix(ReceivedCodes, sentOrder)
    /\ IsPrefix(WrittenCodes, sentOrder)

C10_Witness ==
    /\ hpc = "done"
    /\ Len(regions) = 2
    /\ sentOrder = <<regions[2].Code, regions[1].Code>>
    /\ WrittenCodes = sentOrder

\* C11: every write is followed by its flush before the handler receives again, so
\* the flushes keep up with the writes event by event, also while goroutines of
\* other regions are still probing.
C11_FlushAfterEveryWrite ==
    /\ hpc = "flush" => flushes + 1 = Len(writes)
    /\ hpc # "flush" => flushes = Len(writes)
    /\ hpc = "write" => Len(received) = flushes + 1
    /\ hpc \in {"range", "done"} => Len(received) = flushes

C11_Witness ==
    /\ flushes = 1
    /\ Len(writes) = 1
    /\ hpc = "range"
    /\ closed = 0
    /\ \E r \in Targets : ppc[r] = "probing" /\ Len(hist[r]) < Attempts

\* C12 (state part): a client address that does not parse (the empty string included), or any
\* failing step of the client ping, gives clientPing = 0; it neither ends the request
\* with an error nor puts an error into a result, and the request still runs every
\* goroutine to its end and writes one event per region.
C12_PingFailureInv ==
    hpc # "start" =>
        /\ ~ParseIPOk(ip) => clientPing = 0
        /\ \A o \in ClientOutcomes : o.fail # "none" => pingClient(ip, o) = 0
        /\ flusherOk => httpError = ""
        /\ \A r \in Targets :
             (Built(r) /\ result[r].Error # "") =>
                 /\ result[r].Error = lastError[r]
                 /\ \E i \in Failures(hist[r]) : hist[r][i].err = result[r].Error

\* C12: the above in every state, and the request ends with all goroutines done and
\* one event per region when the client ping gave 0.
C12_ClientPingFailureAbsorbed ==
    /\ []C12_PingFailureInv
    /\ <>[](/\ hpc = "done"
            /\ (flusherOk /\ clientPing = 0) =>
                   (EmittedAll /\ \A r \in Targets : ppc[r] = "done"))

C12_Witness ==
    /\ hpc = "done"
    /\ xff = <<>>
    /\ remoteAddr = <<>>
    /\ ip = <<>>
    /\ clientPing = 0
    /\ Len(regions) = 1
    /\ EmittedAll
    /\ "error" \notin DOMAIN writes[1].data
    /\ writes[1].data.clientPing = 0

\* C13: the channel is closed at most once, only when every goroutine has sent and
\* returned; no goroutine sends on the closed channel; a request that has streamed
\* has closed it exactly once.
C13_ClosedOnceAfterAllSends ==
    /\ closed <= 1
    /\ ~panicked
    /\ closed = 1 =>
         /\ \A r \in Targets : ppc[r] = "done"
         /\ Len(sentOrder) = Len(regions)
    /\ (hpc = "done" /\ flusherOk) => closed = 1

C13_Witness ==
    /\ closed = 1
    /\ Len(regions) = 2
    /\ Len(results) = 2
    /\ hpc = "range"

\* C14: a goroutine makes exactly three pingRegion calls whatever they return, one
\* after the other: while call k+1 is in flight exactly k calls have returned, and
\* the result is built when three have.
C14_ThreeSequentialAttempts ==
    \A r \in Targets :
        /\ Len(hist[r]) <= Attempts
        /\ ppc[r] \in {"idle", "ready"} => hist[r] = <<>>
        /\ ppc[r] = "probing" => (att[r] < Attempts /\ Len(hist[r]) = att[r])
        /\ ppc[r] = "sleep" => (att[r] < Attempts /\ Len(hist[r]) = att[r] + 1)
        /\ ppc[r] = "send" => (att[r] = Attempts /\ Len(hist[r]) = Attempts)

C14_Witness ==
    \E r \in Targets :
        /\ ppc[r] = "send"
        /\ Len(hist[r]) = 3
        /\ hist[r][1].err = Nil
        /\ hist[r][2].err # Nil
        /\ hist[r][3].err # Nil

\* C15 (as claimed): there is one pause between any two consecutive attempts,
\* whether the earlier one failed or not, and no pause anywhere else: attempt k+1
\* starts after k pauses, the result is built after two, and no pause follows the
\* third attempt.
C15_PauseBetweenAttempts ==
    \A r \in Targets :
        /\ ppc[r] = "probing" => pauses[r] = att[r]
        /\ ppc[r] = "sleep" => att[r] < Attempts - 1
        /\ ppc[r] = "send" => pauses[r] = Attempts - 1

\* C16: once the fan-out has started the handler returns only when the channel is
\* closed and drained, every goroutine of the request having finished.
C16_ReturnsOnlyAfterDrain ==
    (hpc = "done" /\ flusherOk) =>
        /\ closed = 1
        /\ results = <<>>
        /\ cpc = "done"
        /\ \A r \in Targets : ppc[r] = "done"
        /\ Len(received) = Len(regions)

C16_Witness ==
    /\ hpc = "done"
    /\ flusherOk
    /\ Len(regions) = 2
    /\ closed = 1
    /\ Len(received) = 2

\* C17: whatever the client does, every goroutine of the request ends: the region
\* goroutines after their three attempts and their send, the closer after the close,
\* and the handler returns.
C17_NoTaskLeaked ==
    <>[](/\ hpc = "done"
         /\ flusherOk => (/\ cpc = "done"
                          /\ closed = 1
                          /\ \A r \in Targets : ppc[r] = "done"
                          /\ Len(sentOrder) = Len(regions))
         /\ ~flusherOk => (cpc = "idle" /\ \A r \in Targets : ppc[r] = "idle"))

C17_Witness ==
    /\ hpc = "done"
    /\ ~connected
    /\ Len(regions) = 2
    /\ Len(writes) = 2
    /\ ~writes[1].ok
    /\ ~writes[2].ok
    /\ cpc = "done"
    /\ \A r \in Targets : ppc[r] = "done"

\* The received results the loop body has dealt with.
Handled == IF hpc = "write" THEN SubSeq(received, 1, Len(received) - 1) ELSE received

\* C18: a result that json.Marshal rejects is skipped without a write or a flush, and
\* the loop goes on: the events written are, in order, those of the received results
\* that marshal, each flushed, until the channel is drained.
C18_MarshalFailureIsolated ==
    /\ [i \in DOMAIN writes |-> writes[i].data]
         = [i \in DOMAIN SelectSeq(Handled, MarshalOk) |->
               Marshal(SelectSeq(Handled, MarshalOk)[i])]
    /\ hpc # "flush" => flushes = Len(writes)
    /\ hpc = "done" => (results = <<>> /\ Len(received) = Len(regions))

C18_Witness ==
    /\ hpc = "done"
    /\ Len(regions) = 2
    /\ Len(received) = 2
    /\ ~MarshalOk(received[1])
    /\ MarshalOk(received[2])
    /\ Len(writes) = 1
    /\ writes[1].data.code = regions[2].Code
    /\ flushes = 1

\* C20 (as claimed): the latency of a result is the least successful duration cut to
\* whole milliseconds; a result with latency 0 and no error has a successful attempt
\* shorter than 1 ms; a result with a latency above 0 has no error.
C20_LatencyTruncatedMin ==
    \A r \in Targets :
        Built(r) =>
            /\ Successes(hist[r]) # {} =>
                   result[r].Latency = Milliseconds(MinSuccess(hist[r]))
            /\ (result[r].Latency = 0 /\ result[r].Error = "") =>
                   \E i \in Successes(hist[r]) : hist[r][i].d < NsPerMs
            /\ result[r].Latency > 0 => result[r].Error = ""

====
